---- MODULE Spec2Model ----
(***************************************************************************)
(* User management API: HTTP handlers, UserService, field converters and   *)
(* the sqlc queries over the users table, with concurrent requests.        *)
(* Every storage call of a request is one atomic step; the steps of        *)
(* different requests interleave.                                          *)
(***************************************************************************)
EXTENDS Integers, Sequences, FiniteSets, TLC

\* ------------------------------------------------------------------ bounds
\* number of identifiers uuid_generate_v4() can hand out in one run
MaxUsers == 2
\* last value of the storage clock (CURRENT_TIMESTAMP)
MaxClock == 1

\* the request-handling units: two requests may be in flight at once
Procs == {1, 2}
UUIDs == 1..MaxUsers

\* ------------------------------------------------------- Go values
\* A Go int is 64 bits wide; it is kept as hi * 2^16 + lo with 0 <= lo < 2^16
\* so that values beyond 32 bits can be written down.
Limb == 65536

GoInt(hi, lo) == [hi |-> hi, lo |-> lo]

IntIsPositive(i) == i.hi > 0 \/ (i.hi = 0 /\ i.lo > 0)

\* *string and *int: nil, or a pointer to a value
NilStr == [ok |-> FALSE, v |-> ""]
PtrStr(s) == [ok |-> TRUE, v |-> s]
NilInt == [ok |-> FALSE, v |-> GoInt(0, 0)]
PtrInt(i) == [ok |-> TRUE, v |-> i]

UserStatusActive == "Active"
UserStatusInactive == "Inactive"

\* ------------------------------------------------------- field converters
ConvertStringPtrToText(s) ==
    IF ~s.ok THEN [String |-> "", Valid |-> FALSE]
    ELSE [String |-> s.v, Valid |-> TRUE]

\* an empty text is taken for no value
ConvertTextToStringPtr_EmptyIsNil(t) ==
    IF ~t.Valid \/ t.String = "" THEN NilStr ELSE PtrStr(t.String)

ConvertTextToStringPtr(t) ==
    IF ~t.Valid THEN NilStr ELSE PtrStr(t.String)

\* int32(x): the low 32 bits of x, read as a signed number
Int32Of(i) ==
    LET h == i.hi % Limb
    IN IF h >= Limb \div 2 THEN (h - Limb) * Limb + i.lo ELSE h * Limb + i.lo

\* int(x) of an int32: sign extension
IntOfInt32(n) == GoInt(n \div Limb, n % Limb)

ConvertIntPtrToInt4(i) ==
    IF ~i.ok THEN [Int32 |-> 0, Valid |-> FALSE]
    ELSE [Int32 |-> Int32Of(i.v), Valid |-> TRUE]

ConvertInt4ToIntPtr(i) ==
    IF ~i.Valid THEN NilInt ELSE PtrInt(IntOfInt32(i.Int32))

ConvertStatusPtr(s) ==
    IF s.ok THEN [UserStatus |-> s.v, Valid |-> TRUE]
    ELSE [UserStatus |-> "", Valid |-> FALSE]

ConvertToUserResponse(user) ==
    [UserID |-> user.user_id,
     FirstName |-> user.first_name,
     LastName |-> user.last_name,
     Email |-> user.email,
     Phone |-> ConvertTextToStringPtr(user.phone),
     Age |-> ConvertInt4ToIntPtr(user.age),
     Status |-> user.status,
     CreatedAt |-> user.created_at,
     UpdatedAt |-> user.updated_at]

\* ------------------------------------------------------- request inputs
\* names of 51 and of 50 characters
LongName == "abcdefghijklmnopqrstuvwxyzabcdefghijklmnopqrstuvwxy"
Name50 == "abcdefghijklmnopqrstuvwxyzabcdefghijklmnopqrstuvwx"

ValidEmails == {"a@x.io", "b@x.io"}
ValidPhones == {"+14155551234"}
UserStatuses == {UserStatusActive, UserStatusInactive}

\* the `email` and `e164` rules of the validation library, on the strings used
IsEmail(s) == s \in ValidEmails
IsE164(s) == s \in ValidPhones

\* ------------------------------------------------------- validation rules
\* The rules of one field, in tag order; the result is the tag of the first
\* rule that fails, "" when none does.
NameCreateTag(s) ==
    IF s = "" THEN "required"
    ELSE IF Len(s) < 2 THEN "min"
    ELSE IF Len(s) > 50 THEN "max"
    ELSE ""

EmailCreateTag(s) ==
    IF s = "" THEN "required"
    ELSE IF ~IsEmail(s) THEN "email"
    ELSE ""

\* omitempty also skips a pointer to the empty string
NamePtrTag_SkipEmpty(p) ==
    IF ~p.ok \/ p.v = "" THEN ""
    ELSE IF Len(p.v) < 2 THEN "min"
    ELSE IF Len(p.v) > 50 THEN "max"
    ELSE ""

\* omitempty on a pointer skips the rules only when the pointer is nil
NamePtrTag(p) ==
    IF ~p.ok THEN ""
    ELSE IF Len(p.v) < 2 THEN "min"
    ELSE IF Len(p.v) > 50 THEN "max"
    ELSE ""

EmailPtrTag(p) == IF p.ok /\ ~IsEmail(p.v) THEN "email" ELSE ""
PhonePtrTag(p) == IF p.ok /\ ~IsE164(p.v) THEN "e164" ELSE ""
AgePtrTag(p) == IF p.ok /\ ~IntIsPositive(p.v) THEN "gt" ELSE ""
\* omitempty on a string skips the rules when the string is empty
StatusTag(s) == IF s # "" /\ s \notin UserStatuses THEN "oneof" ELSE ""
StatusPtrTag(p) == IF p.ok /\ p.v \notin UserStatuses THEN "oneof" ELSE ""

\* the failing tag of every field of the struct, by struct field name
CreateTags(r) ==
    [FirstName |-> NameCreateTag(r.FirstName),
     LastName |-> NameCreateTag(r.LastName),
     Email |-> EmailCreateTag(r.Email),
     Phone |-> PhonePtrTag(r.Phone),
     Age |-> AgePtrTag(r.Age),
     Status |-> StatusTag(r.Status)]

UpdateTags(r) ==
    [FirstName |-> NamePtrTag(r.FirstName),
     LastName |-> NamePtrTag(r.LastName),
     Email |-> EmailPtrTag(r.Email),
     Phone |-> PhonePtrTag(r.Phone),
     Age |-> AgePtrTag(r.Age),
     Status |-> StatusPtrTag(r.Status)]

\* strings.ToLower(s[:1]) + s[1:], on the field names of the request structs
firstCharToLowercase(s) ==
    CASE s = "FirstName" -> "firstName"
      [] s = "LastName" -> "lastName"
      [] s = "Email" -> "email"
      [] s = "Phone" -> "phone"
      [] s = "Age" -> "age"
      [] s = "Status" -> "status"
      [] OTHER -> s

formatValidationError(fieldName, tag) ==
    LET field == firstCharToLowercase(fieldName) IN
    CASE tag = "required" -> field \o " is required"
      [] tag = "email" -> field \o " must be a valid email address"
      [] tag = "min" -> field \o " must be at least 2 characters"
      [] tag = "max" -> field \o " must not exceed 50 characters"
      [] tag = "gt" -> field \o " must be greater than 0"
      [] tag = "e164" -> field \o " must be a valid phone number in E.164 format"
      [] tag = "oneof" -> field \o " must be one of: Active Inactive"
      [] OTHER -> field \o " is invalid"

\* map[string]string of the failing fields; the empty map stands for nil
ValidateStruct(tags) ==
    LET bad == {n \in DOMAIN tags : tags[n] # ""}
        fieldOf(f) == CHOOSE n \in bad : firstCharToLowercase(n) = f
    IN [f \in {firstCharToLowercase(n) : n \in bad} |->
            formatValidationError(fieldOf(f), tags[fieldOf(f)])]

NoDetails == [f \in {} |-> ""]

\* ------------------------------------------------------- identifiers
NotAUUID == "not-a-valid-uuid"

\* canonical text of a UUID, as it appears in a request path
UUIDText(u) == ToString(u)

\* every identifier a request can name: the ones storage can hand out and one
\* well-formed identifier that is never handed out
KnownUUIDs == 0..MaxUsers

IDStrings == {UUIDText(u) : u \in KnownUUIDs} \cup {NotAUUID}

\* uuid.Parse: the UUID written by the string, or an error
ParseOK(s) == \E u \in KnownUUIDs : UUIDText(u) = s
ParseUUID(s) == CHOOSE u \in KnownUUIDs : UUIDText(u) = s

\* ------------------------------------------------------- storage (users table)
\* outcome of a storage call that the database answered
ErrNone == "none"
ErrNoRows == "no rows in result set"
ErrUnique == "unique_violation"
ErrCheck == "check_violation"
ErrEnum == "invalid_text_representation"
\* outcomes of a storage call that the database could not answer
Faults == {"connection refused", "context deadline exceeded"}

NoUser ==
    [user_id |-> 0, first_name |-> "", last_name |-> "", email |-> "",
     phone |-> [String |-> "", Valid |-> FALSE],
     age |-> [Int32 |-> 0, Valid |-> FALSE],
     status |-> "", created_at |-> 0, updated_at |-> 0]

\* user_id UUID PRIMARY KEY
PrimaryKeyTaken(tbl, id) == \E r \in tbl : r.user_id = id

\* the email column without its UNIQUE constraint
EmailTaken_NoConstraint(tbl, id, email) == FALSE

\* email VARCHAR(255) NOT NULL UNIQUE: another row already holds the email
EmailTaken(tbl, id, email) == \E r \in tbl : r.user_id # id /\ r.email = email

\* the age column without its CHECK constraint
AgeCheck_None(age) == TRUE

\* age INTEGER CHECK (age > 0); NULL passes
AgeCheck(age) == ~age.Valid \/ age.Int32 > 0

\* status user_status: the text must name a value of the enum
StatusIsEnum(s) == s \in {"Active", "Inactive"}

\* uuid_generate_v4(): an identifier that was never handed out before; which one
\* it is makes no difference, so it is the first of them
uuid_generate_v4(handedOut) ==
    {u \in UUIDs \ handedOut : \A w \in UUIDs \ handedOut : u <= w}

\* CURRENT_TIMESTAMP read by a statement: the clock never runs backwards
CURRENT_TIMESTAMP(last) == last..MaxClock

\* the lookup compares the wrong column
QueryEmailExists_WrongColumn(tbl, email) == \E r \in tbl : r.first_name = email

\* -- name: EmailExists :one
QueryEmailExists(tbl, email) == \E r \in tbl : r.email = email

\* the existence check answers true for every identifier
QueryUserExists_Always(tbl, id) == TRUE

\* -- name: UserExists :one
QueryUserExists(tbl, id) == \E r \in tbl : r.user_id = id

\* the SELECT without its WHERE clause: any row answers
QueryGetUserByID_AnyRow(tbl, id) ==
    IF tbl # {}
    THEN [err |-> ErrNone, user |-> CHOOSE r \in tbl : \A o \in tbl : r.user_id >= o.user_id]
    ELSE [err |-> ErrNoRows, user |-> NoUser]

\* -- name: GetUserByID :one
QueryGetUserByID(tbl, id) ==
    IF \E r \in tbl : r.user_id = id
    THEN [err |-> ErrNone, user |-> CHOOSE r \in tbl : r.user_id = id]
    ELSE [err |-> ErrNoRows, user |-> NoUser]

\* the INSERT as an upsert on the email: the row that holds the email is replaced
QueryCreateUser_Upsert(tbl, arg, id, ts) ==
    LET row == [user_id |-> id,
                first_name |-> arg.FirstName,
                last_name |-> arg.LastName,
                email |-> arg.Email,
                phone |-> arg.Phone,
                age |-> arg.Age,
                status |-> arg.Status,
                created_at |-> ts,
                updated_at |-> ts]
    IN [err |-> ErrNone, user |-> row,
        tbl |-> {r \in tbl : r.email # row.email} \cup {row}]

\* -- name: CreateUser :one   (INSERT ... RETURNING *)
QueryCreateUser(tbl, arg, id, ts) ==
    LET row == [user_id |-> id,
                first_name |-> arg.FirstName,
                last_name |-> arg.LastName,
                email |-> arg.Email,
                phone |-> arg.Phone,
                age |-> arg.Age,
                status |-> arg.Status,
                created_at |-> ts,
                updated_at |-> ts]
        err == IF ~StatusIsEnum(row.status) THEN ErrEnum
               ELSE IF ~AgeCheck(row.age) THEN ErrCheck
               ELSE IF PrimaryKeyTaken(tbl, id) THEN ErrUnique
               ELSE IF EmailTaken(tbl, id, row.email) THEN ErrUnique
               ELSE ErrNone
    IN IF err = ErrNone
       THEN [err |-> ErrNone, user |-> row, tbl |-> tbl \cup {row}]
       ELSE [err |-> err, user |-> NoUser, tbl |-> tbl]

\* COALESCE($n, column) for the nullable parameter types
\* SET column = $n: the parameter is stored, present or not
CoalesceText_Overwrite(t, old) == t.String

CoalesceText(t, old) == IF t.Valid THEN t.String ELSE old
CoalesceNullableText(t, old) == IF t.Valid THEN t ELSE old
CoalesceInt4(i, old) == IF i.Valid THEN i ELSE old
CoalesceStatus(st, old) == IF st.Valid THEN st.UserStatus ELSE old

\* the UPDATE also assigns user_id (the nil UUID)
QueryUpdateUser_NewId(tbl, arg, ts) ==
    IF ~(\E r \in tbl : r.user_id = arg.UserID)
    THEN [err |-> ErrNoRows, user |-> NoUser, tbl |-> tbl]
    ELSE
      LET old == CHOOSE r \in tbl : r.user_id = arg.UserID
          row == [user_id |-> 0,
                  first_name |-> CoalesceText(arg.FirstName, old.first_name),
                  last_name |-> CoalesceText(arg.LastName, old.last_name),
                  email |-> CoalesceText(arg.Email, old.email),
                  phone |-> CoalesceNullableText(arg.Phone, old.phone),
                  age |-> CoalesceInt4(arg.Age, old.age),
                  status |-> CoalesceStatus(arg.Status, old.status),
                  created_at |-> old.created_at,
                  updated_at |-> ts]
      IN [err |-> ErrNone, user |-> row, tbl |-> (tbl \ {old}) \cup {row}]

\* -- name: UpdateUser :one   (UPDATE ... WHERE user_id = $1 RETURNING *)
QueryUpdateUser(tbl, arg, ts) ==
    IF arg.Status.Valid /\ ~StatusIsEnum(arg.Status.UserStatus)
    THEN [err |-> ErrEnum, user |-> NoUser, tbl |-> tbl]
    ELSE IF ~(\E r \in tbl : r.user_id = arg.UserID)
    THEN [err |-> ErrNoRows, user |-> NoUser, tbl |-> tbl]
    ELSE
      LET old == CHOOSE r \in tbl : r.user_id = arg.UserID
          row == [user_id |-> old.user_id,
                  first_name |-> CoalesceText(arg.FirstName, old.first_name),
                  last_name |-> CoalesceText(arg.LastName, old.last_name),
                  email |-> CoalesceText(arg.Email, old.email),
                  phone |-> CoalesceNullableText(arg.Phone, old.phone),
                  age |-> CoalesceInt4(arg.Age, old.age),
                  status |-> CoalesceStatus(arg.Status, old.status),
                  created_at |-> old.created_at,
                  updated_at |-> ts]
          err == IF ~AgeCheck(row.age) THEN ErrCheck
                 ELSE IF EmailTaken(tbl, row.user_id, row.email) THEN ErrUnique
                 ELSE ErrNone
      IN IF err = ErrNone
         THEN [err |-> ErrNone, user |-> row, tbl |-> (tbl \ {old}) \cup {row}]
         ELSE [err |-> err, user |-> NoUser, tbl |-> tbl]

\* a DELETE that removes nothing
QueryDeleteUser_Keep(tbl, id) == tbl

\* -- name: DeleteUser :exec
QueryDeleteUser(tbl, id) == {r \in tbl : r.user_id # id}

\* the SELECT with LIMIT 1
QueryListUsers_Limit1(tbl) ==
    IF tbl = {} THEN {<< >>}
    ELSE {<< r >> : r \in {x \in tbl : \A o \in tbl : x.created_at >= o.created_at}}

\* -- name: ListUsers :many   (ORDER BY created_at DESC; ties in any order)
QueryListUsers(tbl) ==
    LET n == Cardinality(tbl)
    IN {s \in [1..n -> tbl] :
          /\ \A i, j \in 1..n : i # j => s[i] # s[j]
          /\ \A i, j \in 1..n : i < j => s[i].created_at >= s[j].created_at}

\* ------------------------------------------------------- errors and responses
\* AppError; Err is the wrapped cause and is not part of any response body
NoError == [StatusCode |-> 0, Message |-> "", Err |-> ""]
NewBadRequestError(message) == [StatusCode |-> 400, Message |-> message, Err |-> ""]
NewNotFoundError(message) == [StatusCode |-> 404, Message |-> message, Err |-> ""]
\* the cause is appended to the message
NewInternalServerError_Leak(message, err) ==
    [StatusCode |-> 500, Message |-> message \o ": " \o err, Err |-> err]

NewInternalServerError(message, err) == [StatusCode |-> 500, Message |-> message, Err |-> err]
NewConflictError(message) == [StatusCode |-> 409, Message |-> message, Err |-> ""]

\* http.StatusText
StatusText(code) ==
    CASE code = 400 -> "Bad Request"
      [] code = 404 -> "Not Found"
      [] code = 409 -> "Conflict"
      [] code = 500 -> "Internal Server Error"
      [] OTHER -> ""

\* what is written to the client: the status code and the JSON body
NoResponse ==
    [status |-> 0, error |-> "", message |-> "", details |-> NoDetails,
     users |-> << >>, total |-> 0, shape |-> "none"]

sendError(appErr) ==
    [status |-> appErr.StatusCode, error |-> StatusText(appErr.StatusCode),
     message |-> appErr.Message, details |-> NoDetails,
     users |-> << >>, total |-> 0, shape |-> "error"]

\* a Go error value: an *AppError, or any other error, of which only the text is
\* known
AppErrorValue(appErr) == [isAppError |-> TRUE, appErr |-> appErr, text |-> appErr.Message]
OtherError(text) == [isAppError |-> FALSE, appErr |-> NoError, text |-> text]

\* every error is taken for an unknown one
handleServiceError_AlwaysUnexpected(err) ==
    sendError(NewInternalServerError("An unexpected error occurred", err.text))

\* handleServiceError: the type assertion err.(*models.AppError)
handleServiceError(err) ==
    IF err.isAppError
    THEN sendError(err.appErr)
    ELSE sendError(NewInternalServerError("An unexpected error occurred", err.text))

\* the field errors are left out of the body
sendValidationError_NoDetails(errors) ==
    [status |-> 400, error |-> "Validation Failed",
     message |-> "One or more fields failed validation", details |-> NoDetails,
     users |-> << >>, total |-> 0, shape |-> "error"]

sendValidationError(errors) ==
    [status |-> 400, error |-> "Validation Failed",
     message |-> "One or more fields failed validation", details |-> errors,
     users |-> << >>, total |-> 0, shape |-> "error"]

\* the status code of the call is dropped: the header defaults to 200
sendUser_Always200(code, user) ==
    [status |-> 200, error |-> "", message |-> "", details |-> NoDetails,
     users |-> << user >>, total |-> 0, shape |-> "user"]

\* sendJSON(w, code, *UserResponse)
sendUser(code, user) ==
    [status |-> code, error |-> "", message |-> "", details |-> NoDetails,
     users |-> << user >>, total |-> 0, shape |-> "user"]

\* sendJSON(w, 200, *ListUsersResponse)
sendList(list) ==
    [status |-> 200, error |-> "", message |-> "", details |-> NoDetails,
     users |-> list.Users, total |-> list.Total, shape |-> "list"]

\* sendJSON(w, 200, SuccessResponse{Message: ...})
sendSuccess(message) ==
    [status |-> 200, error |-> "", message |-> message, details |-> NoDetails,
     users |-> << >>, total |-> 0, shape |-> "message"]

\* ------------------------------------------------------- state
VARIABLES
    users,        \* rows of the users table
    handedOut,    \* identifiers uuid_generate_v4() has produced
    now,          \* the last CURRENT_TIMESTAMP a statement has read
    pc,           \* pc[p]: where request p stands
    req,          \* req[p]: the request being handled
    emailExists,  \* emailExists[p]: local of UserService.UpdateUser
    svcErr,       \* svcErr[p]: the error the service returned, NoError if nil
    resp,         \* resp[p]: the response written
    calls,        \* calls[p]: storage calls issued by the request, in order
    deleted,      \* history: identifiers for which a delete request reported success
    fresh         \* history: responses of the creates whose record was not written since

vars == << users, handedOut, now, pc, req, emailExists, svcErr, resp, calls, deleted, fresh >>

NoRequest == [op |-> "none", id |-> "", decodes |-> TRUE]

Init ==
    /\ users = {}
    /\ handedOut = {}
    /\ now = 0
    /\ pc = [p \in Procs |-> "idle"]
    /\ req = [p \in Procs |-> NoRequest]
    /\ emailExists = [p \in Procs |-> FALSE]
    /\ svcErr = [p \in Procs |-> NoError]
    /\ resp = [p \in Procs |-> NoResponse]
    /\ calls = [p \in Procs |-> << >>]
    /\ deleted = {}
    /\ fresh = {}

\* a response that has been computed is sent before anything else happens
Ready == \A q \in Procs : pc[q] # "done"

\* the request goes on to its next storage call
Goto(p, label) ==
    /\ pc' = [pc EXCEPT ![p] = label]
    /\ UNCHANGED << svcErr, resp >>

\* handleServiceError: the service returned an error
Fail(p, appErr) ==
    /\ pc' = [pc EXCEPT ![p] = "done"]
    /\ svcErr' = [svcErr EXCEPT ![p] = appErr]
    /\ resp' = [resp EXCEPT ![p] = handleServiceError(AppErrorValue(appErr))]

\* the handler writes a response without a service error
Reply(p, r) ==
    /\ pc' = [pc EXCEPT ![p] = "done"]
    /\ resp' = [resp EXCEPT ![p] = r]
    /\ UNCHANGED svcErr

Call(p, name) == calls' = [calls EXCEPT ![p] = Append(@, name)]

\* outcomes of one storage call: answered, or failed before an answer
Outcomes == {ErrNone} \cup Faults

\* ------------------------------------------------------- create
\* requests in flight that will still ask for an identifier
Creating == {q \in Procs : pc[q] = "c_insert"}

\* UserService.CreateUser: s.queries.EmailExists
CreateEmailExists(p, body) ==
    /\ Call(p, "EmailExists")
    /\ \E out \in Outcomes :
         IF out # ErrNone
         THEN Fail(p, NewInternalServerError("Failed to check email existence", out))
         ELSE IF QueryEmailExists(users, body.Email)
         THEN Fail(p, NewConflictError("Email Already Exists"))
         ELSE Goto(p, "c_insert")

\* the handler calls the service without validating the body
HandlerCreateUser_NoValidate(p, decodes, body) ==
    /\ Ready
    /\ pc[p] = "idle"
    /\ Cardinality(handedOut) + Cardinality(Creating) < MaxUsers
    /\ req' = [req EXCEPT ![p] = [op |-> "create", id |-> "", decodes |-> decodes, body |-> body]]
    /\ IF ~decodes
       THEN Reply(p, sendError(NewBadRequestError("Invalid request body"))) /\ UNCHANGED calls
       ELSE CreateEmailExists(p, body)
    /\ UNCHANGED << users, handedOut, now, emailExists, deleted, fresh >>

\* UserHandler.CreateUser: decode, validate, and the service up to the answer of
\* its first storage call
HandlerCreateUser(p, decodes, body) ==
    /\ Ready
    /\ pc[p] = "idle"
    /\ Cardinality(handedOut) + Cardinality(Creating) < MaxUsers
    /\ req' = [req EXCEPT ![p] = [op |-> "create", id |-> "", decodes |-> decodes, body |-> body]]
    /\ IF ~decodes
       THEN Reply(p, sendError(NewBadRequestError("Invalid request body"))) /\ UNCHANGED calls
       ELSE IF ValidateStruct(CreateTags(body)) # NoDetails
       THEN Reply(p, sendValidationError(ValidateStruct(CreateTags(body)))) /\ UNCHANGED calls
       ELSE CreateEmailExists(p, body)
    /\ UNCHANGED << users, handedOut, now, emailExists, deleted, fresh >>

\* the status of the request is dropped: every record starts Active
CreateUserParams_AlwaysActive(body) ==
    [FirstName |-> body.FirstName,
     LastName |-> body.LastName,
     Email |-> body.Email,
     Phone |-> ConvertStringPtrToText(body.Phone),
     Age |-> ConvertIntPtrToInt4(body.Age),
     Status |-> UserStatusActive]

CreateUserParams(body) ==
    [FirstName |-> body.FirstName,
     LastName |-> body.LastName,
     Email |-> body.Email,
     Phone |-> ConvertStringPtrToText(body.Phone),
     Age |-> ConvertIntPtrToInt4(body.Age),
     Status |-> IF body.Status = "" THEN UserStatusActive ELSE body.Status]

\* an insert that is rejected has first removed the record that holds the email
CreateInsert_ReplaceThenFail(p) ==
    /\ Ready
    /\ pc[p] = "c_insert"
    /\ Call(p, "CreateUser")
    /\ \E out \in Outcomes, id \in uuid_generate_v4(handedOut), ts \in CURRENT_TIMESTAMP(now) :
         LET r == QueryCreateUser(users, CreateUserParams(req[p].body), id, ts)
         IN IF out # ErrNone
            THEN /\ Fail(p, NewInternalServerError("Failed to create user", out))
                 /\ UNCHANGED << users, handedOut, now, fresh >>
            ELSE IF r.err # ErrNone
            THEN /\ Fail(p, NewInternalServerError("Failed to create user", r.err))
                 /\ users' = {u \in users : u.email # req[p].body.Email}
                 /\ UNCHANGED << handedOut, now, fresh >>
            ELSE /\ users' = r.tbl
                 /\ handedOut' = handedOut \cup {id}
                 /\ now' = ts
                 /\ Reply(p, sendUser(201, ConvertToUserResponse(r.user)))
                 /\ fresh' = fresh \cup {ConvertToUserResponse(r.user)}
    /\ UNCHANGED << req, emailExists, deleted >>

\* UserService.CreateUser: s.queries.CreateUser and the response
CreateInsert(p) ==
    /\ Ready
    /\ pc[p] = "c_insert"
    /\ Call(p, "CreateUser")
    /\ \E out \in Outcomes, id \in uuid_generate_v4(handedOut), ts \in CURRENT_TIMESTAMP(now) :
         LET r == QueryCreateUser(users, CreateUserParams(req[p].body), id, ts)
         IN IF out # ErrNone
            THEN /\ Fail(p, NewInternalServerError("Failed to create user", out))
                 /\ UNCHANGED << users, handedOut, now, fresh >>
            ELSE IF r.err # ErrNone
            THEN /\ Fail(p, NewInternalServerError("Failed to create user", r.err))
                 /\ UNCHANGED << users, handedOut, now, fresh >>
            ELSE /\ users' = r.tbl
                 /\ handedOut' = handedOut \cup {id}
                 /\ now' = ts
                 /\ Reply(p, sendUser(201, ConvertToUserResponse(r.user)))
                 /\ fresh' = fresh \cup {ConvertToUserResponse(r.user)}
    /\ UNCHANGED << req, emailExists, deleted >>

\* ------------------------------------------------------- get by id
\* UserService.GetUserByID after the identifier has parsed
GetUserByID(p, id) ==
    /\ Call(p, "GetUserByID")
    /\ \E out \in Outcomes :
         LET r == QueryGetUserByID(users, id)
         IN IF out # ErrNone
            THEN Fail(p, NewInternalServerError("Failed to get user", out))
            ELSE IF r.err = ErrNoRows
            THEN Fail(p, NewNotFoundError("User not found"))
            ELSE Reply(p, sendUser(200, ConvertToUserResponse(r.user)))

\* the parse error is dropped and the nil UUID is looked up
HandlerGetUser_IgnoreParseError(p, id) ==
    /\ Ready
    /\ pc[p] = "idle"
    /\ req' = [req EXCEPT ![p] = [op |-> "get", id |-> id, decodes |-> TRUE]]
    /\ GetUserByID(p, IF ParseOK(id) THEN ParseUUID(id) ELSE 0)
    /\ UNCHANGED << users, handedOut, now, emailExists, deleted, fresh >>

\* UserHandler.GetUser
HandlerGetUser(p, id) ==
    /\ Ready
    /\ pc[p] = "idle"
    /\ req' = [req EXCEPT ![p] = [op |-> "get", id |-> id, decodes |-> TRUE]]
    /\ IF ~ParseOK(id)
       THEN Fail(p, NewBadRequestError("Invalid user ID format")) /\ UNCHANGED calls
       ELSE GetUserByID(p, ParseUUID(id))
    /\ UNCHANGED << users, handedOut, now, emailExists, deleted, fresh >>

\* ------------------------------------------------------- list
ListUsersResponse(rows) ==
    LET userResponses == [i \in 1..Len(rows) |-> ConvertToUserResponse(rows[i])]
    IN [Users |-> userResponses, Total |-> Len(userResponses)]

\* UserService.ListUsers
ListUsers(p) ==
    /\ Call(p, "ListUsers")
    /\ \E out \in Outcomes :
         IF out # ErrNone
         THEN Fail(p, NewInternalServerError("Failed to list users", out))
         ELSE \E rows \in QueryListUsers(users) :
                 Reply(p, sendList(ListUsersResponse(rows)))

\* UserHandler.ListUsers
HandlerListUsers(p) ==
    /\ Ready
    /\ pc[p] = "idle"
    /\ req' = [req EXCEPT ![p] = [op |-> "list", id |-> "", decodes |-> TRUE]]
    /\ ListUsers(p)
    /\ UNCHANGED << users, handedOut, now, emailExists, deleted, fresh >>

\* ------------------------------------------------------- update
\* UserService.UpdateUser: s.queries.UserExists
UpdateUserExists(p, id, body) ==
    /\ Call(p, "UserExists")
    /\ \E out \in Outcomes :
         IF out # ErrNone
         THEN Fail(p, NewInternalServerError("Failed to check user", out))
         ELSE IF ~QueryUserExists(users, id)
         THEN Fail(p, NewNotFoundError("User not found"))
         ELSE IF body.Email.ok
         THEN Goto(p, "u_email")
         ELSE Goto(p, "u_write")

\* UserHandler.UpdateUser: decode, validate, and the service up to the answer of
\* its first storage call
HandlerUpdateUser(p, id, decodes, body) ==
    /\ Ready
    /\ pc[p] = "idle"
    /\ req' = [req EXCEPT ![p] = [op |-> "update", id |-> id, decodes |-> decodes, body |-> body]]
    /\ IF ~decodes
       THEN Reply(p, sendError(NewBadRequestError("Invalid request body"))) /\ UNCHANGED calls
       ELSE IF ValidateStruct(UpdateTags(body)) # NoDetails
       THEN Reply(p, sendValidationError(ValidateStruct(UpdateTags(body)))) /\ UNCHANGED calls
       ELSE IF ~ParseOK(id)
       THEN Fail(p, NewBadRequestError("Invalid user ID format")) /\ UNCHANGED calls
       ELSE UpdateUserExists(p, ParseUUID(id), body)
    /\ UNCHANGED << users, handedOut, now, emailExists, deleted, fresh >>

\* an email that exists is a conflict at once: the current record is not fetched
UpdateEmailExists_RejectAtOnce(p) ==
    /\ Ready
    /\ pc[p] = "u_email"
    /\ Call(p, "EmailExists")
    /\ \E out \in Outcomes :
         IF out # ErrNone
         THEN /\ Fail(p, NewInternalServerError("Failed to check email", out))
              /\ UNCHANGED emailExists
         ELSE /\ emailExists' = [emailExists EXCEPT ![p] =
                                    QueryEmailExists(users, req[p].body.Email.v)]
              /\ IF QueryEmailExists(users, req[p].body.Email.v)
                 THEN Fail(p, NewConflictError("Email already exists"))
                 ELSE Goto(p, "u_get")
    /\ UNCHANGED << users, handedOut, now, req, deleted, fresh >>

\* s.queries.EmailExists
UpdateEmailExists(p) ==
    /\ Ready
    /\ pc[p] = "u_email"
    /\ Call(p, "EmailExists")
    /\ \E out \in Outcomes :
         IF out # ErrNone
         THEN /\ Fail(p, NewInternalServerError("Failed to check email", out))
              /\ UNCHANGED emailExists
         ELSE /\ emailExists' = [emailExists EXCEPT ![p] =
                                    QueryEmailExists(users, req[p].body.Email.v)]
              /\ Goto(p, "u_get")
    /\ UNCHANGED << users, handedOut, now, req, deleted, fresh >>

\* the emails are not compared: an email that exists is a conflict
UpdateGetCurrent_NoOwnEmail(p) ==
    /\ Ready
    /\ pc[p] = "u_get"
    /\ Call(p, "GetUserByID")
    /\ \E out \in Outcomes :
         LET r == QueryGetUserByID(users, ParseUUID(req[p].id))
         IN IF out # ErrNone
            THEN Fail(p, NewInternalServerError("Failed to get user", out))
            ELSE IF r.err # ErrNone
            THEN Fail(p, NewInternalServerError("Failed to get user", r.err))
            ELSE IF emailExists[p]
            THEN Fail(p, NewConflictError("Email already exists"))
            ELSE Goto(p, "u_write")
    /\ UNCHANGED << users, handedOut, now, req, emailExists, deleted, fresh >>

\* s.queries.GetUserByID and the comparison of the emails
UpdateGetCurrent(p) ==
    /\ Ready
    /\ pc[p] = "u_get"
    /\ Call(p, "GetUserByID")
    /\ \E out \in Outcomes :
         LET r == QueryGetUserByID(users, ParseUUID(req[p].id))
             currentUser == r.user
         IN IF out # ErrNone
            THEN Fail(p, NewInternalServerError("Failed to get user", out))
            ELSE IF r.err # ErrNone
            THEN Fail(p, NewInternalServerError("Failed to get user", r.err))
            ELSE IF emailExists[p] /\ currentUser.email # req[p].body.Email.v
            THEN Fail(p, NewConflictError("Email already exists"))
            ELSE Goto(p, "u_write")
    /\ UNCHANGED << users, handedOut, now, req, emailExists, deleted, fresh >>

UpdateUserParams(id, body) ==
    [UserID |-> id,
     FirstName |-> ConvertStringPtrToText(body.FirstName),
     LastName |-> ConvertStringPtrToText(body.LastName),
     Email |-> ConvertStringPtrToText(body.Email),
     Phone |-> ConvertStringPtrToText(body.Phone),
     Age |-> ConvertIntPtrToInt4(body.Age),
     Status |-> ConvertStatusPtr(body.Status)]

\* s.queries.UpdateUser and the response
UpdateWrite(p) ==
    /\ Ready
    /\ pc[p] = "u_write"
    /\ Call(p, "UpdateUser")
    /\ \E out \in Outcomes, ts \in CURRENT_TIMESTAMP(now) :
         LET r == QueryUpdateUser(users, UpdateUserParams(ParseUUID(req[p].id), req[p].body), ts)
         IN IF out # ErrNone
            THEN /\ Fail(p, NewInternalServerError("Failed to update user", out))
                 /\ UNCHANGED << users, now, fresh >>
            ELSE IF r.err # ErrNone
            THEN /\ Fail(p, NewInternalServerError("Failed to update user", r.err))
                 /\ UNCHANGED << users, now, fresh >>
            ELSE /\ users' = r.tbl
                 /\ now' = ts
                 /\ Reply(p, sendUser(200, ConvertToUserResponse(r.user)))
                 /\ fresh' = {c \in fresh : c.UserID # r.user.user_id}
    /\ UNCHANGED << handedOut, req, emailExists, deleted >>

\* ------------------------------------------------------- delete
\* UserService.DeleteUser: s.queries.UserExists
DeleteUserExists(p, id) ==
    /\ Call(p, "UserExists")
    /\ \E out \in Outcomes :
         IF out # ErrNone
         THEN Fail(p, NewInternalServerError("Failed to check user", out))
         ELSE IF ~QueryUserExists(users, id)
         THEN Fail(p, NewNotFoundError("User not found"))
         ELSE Goto(p, "d_delete")

\* UserHandler.DeleteUser and the service up to the answer of its first storage call
HandlerDeleteUser(p, id) ==
    /\ Ready
    /\ pc[p] = "idle"
    /\ req' = [req EXCEPT ![p] = [op |-> "delete", id |-> id, decodes |-> TRUE]]
    /\ IF ~ParseOK(id)
       THEN Fail(p, NewBadRequestError("Invalid user ID format")) /\ UNCHANGED calls
       ELSE DeleteUserExists(p, ParseUUID(id))
    /\ UNCHANGED << users, handedOut, now, emailExists, deleted, fresh >>

\* s.queries.DeleteUser and the response
DeleteUser(p) ==
    /\ Ready
    /\ pc[p] = "d_delete"
    /\ Call(p, "DeleteUser")
    /\ \E out \in Outcomes :
         IF out # ErrNone
         THEN /\ Fail(p, NewInternalServerError("Failed to delete user", out))
              /\ UNCHANGED << users, deleted, fresh >>
         ELSE /\ users' = QueryDeleteUser(users, ParseUUID(req[p].id))
              /\ Reply(p, sendSuccess("User deleted successfully"))
              /\ deleted' = deleted \cup {ParseUUID(req[p].id)}
              /\ fresh' = {c \in fresh : c.UserID # ParseUUID(req[p].id)}
    /\ UNCHANGED << handedOut, now, req, emailExists >>

\* ------------------------------------------------------- environment
\* the response has been sent; the unit is free for the next request
Finish(p) ==
    /\ pc[p] = "done"
    /\ pc' = [pc EXCEPT ![p] = "idle"]
    /\ req' = [req EXCEPT ![p] = NoRequest]
    /\ emailExists' = [emailExists EXCEPT ![p] = FALSE]
    /\ svcErr' = [svcErr EXCEPT ![p] = NoError]
    /\ resp' = [resp EXCEPT ![p] = NoResponse]
    /\ calls' = [calls EXCEPT ![p] = << >>]
    /\ UNCHANGED << users, handedOut, now, deleted, fresh >>

\* ------------------------------------------------------- inputs
\* the zero value of a request struct, left behind by a body that does not decode
ZeroCreate ==
    [FirstName |-> "", LastName |-> "", Email |-> "",
     Phone |-> NilStr, Age |-> NilInt, Status |-> ""]
ZeroUpdate ==
    [FirstName |-> NilStr, LastName |-> NilStr, Email |-> NilStr,
     Phone |-> NilStr, Age |-> NilInt, Status |-> NilStr]

\* a create body that passes validation, and an update body that changes nothing
BaseCreate ==
    [FirstName |-> "Jo", LastName |-> "Doe", Email |-> "a@x.io",
     Phone |-> NilStr, Age |-> NilInt, Status |-> ""]

Age5 == PtrInt(GoInt(0, 5))
\* 2^32 + 7 and 2^31 + 5: Go ints that do not fit 32 bits
AgeWide7 == PtrInt(GoInt(Limb, 7))
AgeWideNeg == PtrInt(GoInt(Limb \div 2, 5))
Age0 == PtrInt(GoInt(0, 0))
AgeMinus1 == PtrInt(GoInt(-1, Limb - 1))

\* create bodies: the optional fields in every combination, and bodies with
\* one or several fields that break a rule
CreateBodies ==
    {[BaseCreate EXCEPT !.Phone = ph, !.Age = a, !.Status = st] :
        ph \in {NilStr, PtrStr("+14155551234")},
        a \in {NilInt, Age5, AgeWide7, AgeWideNeg},
        st \in {"", UserStatusActive, UserStatusInactive}}
    \cup {[BaseCreate EXCEPT !.FirstName = f] : f \in {"", "J", LongName, Name50}}
    \cup {[BaseCreate EXCEPT !.LastName = f] : f \in {"", "R"}}
    \cup {[BaseCreate EXCEPT !.Email = e] : e \in {"", "not-an-email", "b@x.io"}}
    \cup {[BaseCreate EXCEPT !.Phone = PtrStr(ph)] : ph \in {"", "123-456-7890"}}
    \cup {[BaseCreate EXCEPT !.Age = a] : a \in {Age0, AgeMinus1}}
    \cup {[BaseCreate EXCEPT !.Status = "InvalidStatus"],
          [BaseCreate EXCEPT !.FirstName = "J", !.Email = "not-an-email", !.Age = Age0]}

\* update bodies: every subset of the six fields, and bodies with one or
\* several fields that break a rule
UpdateBodies ==
    [FirstName : {NilStr, PtrStr("Al")},
     LastName : {NilStr, PtrStr("Roe")},
     Email : {NilStr, PtrStr("b@x.io")},
     Phone : {NilStr, PtrStr("+14155551234")},
     Age : {NilInt, Age5},
     Status : {NilStr, PtrStr(UserStatusInactive)}]
    \cup {[ZeroUpdate EXCEPT !.FirstName = PtrStr(f)] : f \in {"", "J", LongName, Name50}}
    \cup {[ZeroUpdate EXCEPT !.Email = PtrStr(e)] : e \in {"", "not-an-email", "a@x.io"}}
    \cup {[ZeroUpdate EXCEPT !.Phone = PtrStr(ph)] : ph \in {"", "123-456-7890"}}
    \cup {[ZeroUpdate EXCEPT !.Age = a] : a \in {Age0, AgeMinus1, AgeWide7, AgeWideNeg}}
    \cup {[ZeroUpdate EXCEPT !.Status = PtrStr(st)] : st \in {"", "InvalidStatus", UserStatusActive}}
    \cup {[ZeroUpdate EXCEPT !.LastName = PtrStr("R"), !.Status = PtrStr("InvalidStatus")]}

\* bodies of the requests that run concurrently: they differ in the email
RaceCreateBodies ==
    {[ZeroCreate EXCEPT !.FirstName = "Jo", !.LastName = "Doe", !.Email = e] :
        e \in ValidEmails \cup {"not-an-email"}}

RaceUpdateBodies ==
    {ZeroUpdate, [ZeroUpdate EXCEPT !.FirstName = PtrStr("J")]}
    \cup {[ZeroUpdate EXCEPT !.Email = PtrStr(e)] : e \in ValidEmails}

\* bodies of the requests that run one at a time: the same, and creates that
\* differ from them in every other field
SeqCreateBodies ==
    RaceCreateBodies
    \cup {[FirstName |-> "Al", LastName |-> "Roe", Email |-> e,
           Phone |-> PtrStr("+14155551234"), Age |-> Age5,
           Status |-> UserStatusInactive] : e \in ValidEmails}

SeqUpdateBodies ==
    RaceUpdateBodies \cup {[ZeroUpdate EXCEPT !.FirstName = PtrStr("Al")]}

\* the identifiers storage can hand out, and a malformed one
RaceIDStrings == {UUIDText(u) : u \in UUIDs} \cup {NotAUUID}

\* ------------------------------------------------------- specifications
\* requests arrive at any time and their storage calls interleave
Next ==
    \/ \E p \in Procs, b \in RaceCreateBodies : HandlerCreateUser(p, TRUE, b)
    \/ \E p \in Procs : HandlerCreateUser(p, FALSE, ZeroCreate)
    \/ \E p \in Procs : CreateInsert(p)
    \/ \E p \in Procs, id \in RaceIDStrings : HandlerGetUser(p, id)
    \/ \E p \in Procs : HandlerListUsers(p)
    \/ \E p \in Procs, id \in RaceIDStrings, b \in RaceUpdateBodies :
          HandlerUpdateUser(p, id, TRUE, b)
    \/ \E p \in Procs, id \in RaceIDStrings : HandlerUpdateUser(p, id, FALSE, ZeroUpdate)
    \/ \E p \in Procs : UpdateEmailExists(p)
    \/ \E p \in Procs : UpdateGetCurrent(p)
    \/ \E p \in Procs : UpdateWrite(p)
    \/ \E p \in Procs, id \in RaceIDStrings : HandlerDeleteUser(p, id)
    \/ \E p \in Procs : DeleteUser(p)
    \/ \E p \in Procs : Finish(p)

Spec == Init /\ [][Next]_vars

\* no other request is in flight
Quiet(p) == \A q \in Procs \ {p} : pc[q] = "idle"

\* one request at a time
SeqNext ==
    \/ \E p \in Procs, b \in SeqCreateBodies : Quiet(p) /\ HandlerCreateUser(p, TRUE, b)
    \/ \E p \in Procs : Quiet(p) /\ HandlerCreateUser(p, FALSE, ZeroCreate)
    \/ \E p \in Procs : CreateInsert(p)
    \/ \E p \in Procs, id \in IDStrings : Quiet(p) /\ HandlerGetUser(p, id)
    \/ \E p \in Procs : Quiet(p) /\ HandlerListUsers(p)
    \/ \E p \in Procs, id \in IDStrings, b \in SeqUpdateBodies :
          Quiet(p) /\ HandlerUpdateUser(p, id, TRUE, b)
    \/ \E p \in Procs, id \in IDStrings : Quiet(p) /\ HandlerUpdateUser(p, id, FALSE, ZeroUpdate)
    \/ \E p \in Procs : UpdateEmailExists(p)
    \/ \E p \in Procs : UpdateGetCurrent(p)
    \/ \E p \in Procs : UpdateWrite(p)
    \/ \E p \in Procs, id \in IDStrings : Quiet(p) /\ HandlerDeleteUser(p, id)
    \/ \E p \in Procs : DeleteUser(p)
    \/ \E p \in Procs : Finish(p)

SeqSpec == Init /\ [][SeqNext]_vars

\* one request at a time, handled by one unit, through the life of one record
\* (created, updated, read, deleted), with bodies that differ in every field
FieldNext ==
    \/ \E p \in {1}, b \in CreateBodies : handedOut = {} /\ HandlerCreateUser(p, TRUE, b)
    \/ \E p \in {1} : HandlerCreateUser(p, FALSE, ZeroCreate)
    \/ \E p \in {1} : CreateInsert(p)
    \/ \E p \in {1}, id \in RaceIDStrings : HandlerGetUser(p, id)
    \/ \E p \in {1} : HandlerListUsers(p)
    \/ \E p \in {1}, id \in RaceIDStrings, b \in UpdateBodies : HandlerUpdateUser(p, id, TRUE, b)
    \/ \E p \in {1}, id \in RaceIDStrings : HandlerUpdateUser(p, id, FALSE, ZeroUpdate)
    \/ \E p \in {1} : UpdateEmailExists(p)
    \/ \E p \in {1} : UpdateGetCurrent(p)
    \/ \E p \in {1} : UpdateWrite(p)
    \/ \E p \in {1}, id \in RaceIDStrings : HandlerDeleteUser(p, id)
    \/ \E p \in {1} : DeleteUser(p)
    \/ \E p \in {1} : Finish(p)

FieldSpec == Init /\ [][FieldNext]_vars

\* update bodies that supply one field each, and the two name fields together
PatchBodies ==
    {[ZeroUpdate EXCEPT !.FirstName = PtrStr("Al")],
     [ZeroUpdate EXCEPT !.LastName = PtrStr("Roe")],
     [ZeroUpdate EXCEPT !.FirstName = PtrStr("Al"), !.LastName = PtrStr("Roe")],
     [ZeroUpdate EXCEPT !.Email = PtrStr("b@x.io")],
     [ZeroUpdate EXCEPT !.Phone = PtrStr("+14155551234")],
     [ZeroUpdate EXCEPT !.Age = Age5],
     [ZeroUpdate EXCEPT !.Status = PtrStr(UserStatusInactive)]}

\* one record is created, then concurrent updates of it
PatchNext ==
    \/ \E p \in Procs : handedOut = {} /\ HandlerCreateUser(p, TRUE, BaseCreate)
    \/ \E p \in Procs : CreateInsert(p)
    \/ \E p \in Procs, b \in PatchBodies : HandlerUpdateUser(p, UUIDText(1), TRUE, b)
    \/ \E p \in Procs : UpdateEmailExists(p)
    \/ \E p \in Procs : UpdateGetCurrent(p)
    \/ \E p \in Procs : UpdateWrite(p)
    \/ \E p \in Procs : Finish(p)

PatchSpec == Init /\ [][PatchNext]_vars

\* ------------------------------------------------------- properties
Done(p) == pc[p] = "done"

\* every storage call the request issued was answered by the storage
Answered(p) == svcErr[p].Err \notin Faults

IdsOf(tbl) == {r.user_id : r \in tbl}

\* C1: in every reachable state, whatever creates, updates and deletes have run
\* or are running, no two stored records have the same email.
C1_UniqueEmail ==
    \A r1, r2 \in users : r1.email = r2.email => r1 = r2

\* two records are stored and a write has just been rejected for its email
C1_Witness ==
    /\ Cardinality(users) = 2
    /\ \E p \in Procs : Done(p) /\ svcErr[p].Err = ErrUnique

\* C2: a create whose insert is rejected by the unique constraint, after its own
\* EmailExists check has passed, is answered with 409 Conflict.
C2_InsertRaceIsConflict ==
    \A p \in Procs :
        (Done(p) /\ req[p].op = "create" /\ svcErr[p].Err = ErrUnique)
            => resp[p].status = 409

\* C3: an update whose write is rejected by the unique constraint, after its own
\* email-conflict check has passed, is answered with 409 Conflict.
C3_UpdateRaceIsConflict ==
    \A p \in Procs :
        (Done(p) /\ req[p].op = "update" /\ svcErr[p].Err = ErrUnique)
            => resp[p].status = 409

\* C4: with one request at a time, a create that passes validation and whose
\* email is held by a stored record ends at once with 409 Conflict (its storage
\* call being answered) and leaves the table as it was.
C4_DuplicateEmailConflict ==
    [][\A p \in Procs :
          (/\ pc[p] = "idle"
           /\ req'[p].op = "create"
           /\ req'[p].decodes
           /\ ValidateStruct(CreateTags(req'[p].body)) = NoDetails
           /\ \E r \in users : r.email = req'[p].body.Email)
          => (/\ pc'[p] = "done"
              /\ users' = users
              /\ (Answered(p)' => resp'[p].status = 409))]_vars

\* a create was answered 409 for the email of a record that differs from the
\* body in its other fields
C4_Witness ==
    \E p \in Procs :
        /\ Done(p) /\ req[p].op = "create" /\ resp[p].status = 409
        /\ \E r \in users : /\ r.email = req[p].body.Email
                            /\ r.first_name # req[p].body.FirstName
                            /\ r.status # UserStatusActive

\* C5: a create that has passed validation and its email check and whose insert
\* meets no storage failure is answered 201; the table gains exactly one record,
\* whose identifier is the one in the response and was never in the table, and
\* all other records are untouched.
C5_CreateAddsOneRecord ==
    [][\A p \in Procs :
          (pc[p] = "c_insert" /\ pc'[p] = "done" /\ svcErr'[p].Err = "")
          => (/\ resp'[p].status = 201
              /\ Len(resp'[p].users) = 1
              /\ \E row \in users' :
                    /\ row.user_id = resp'[p].users[1].UserID
                    /\ row.user_id \notin IdsOf(users) \cup handedOut
                    /\ row \notin users
                    /\ users' = users \cup {row}
              /\ IdsOf(users) \subseteq handedOut)]_vars

\* a create has succeeded next to a record that was already stored
C5_Witness ==
    \E p \in Procs :
        /\ Done(p) /\ req[p].op = "create" /\ resp[p].status = 201
        /\ Cardinality(users) = 2

\* C6: a successful update leaves every supplied field of the record equal to the
\* supplied value and every omitted field at its previous value; with nothing
\* supplied only updated_at may differ.
C6_PartialUpdate ==
    [][\A p \in Procs :
          (pc[p] = "u_write" /\ pc'[p] = "done" /\ resp'[p].status = 200)
          => LET id == ParseUUID(req[p].id)
                 b == req[p].body
             IN \E old \in users, new \in users' :
                   /\ old.user_id = id
                   /\ new.user_id = id
                   /\ new.created_at = old.created_at
                   /\ new.first_name = (IF b.FirstName.ok THEN b.FirstName.v ELSE old.first_name)
                   /\ new.last_name = (IF b.LastName.ok THEN b.LastName.v ELSE old.last_name)
                   /\ new.email = (IF b.Email.ok THEN b.Email.v ELSE old.email)
                   /\ IF b.Phone.ok
                      THEN new.phone.Valid /\ new.phone.String = b.Phone.v
                      ELSE new.phone = old.phone
                   /\ IF b.Age.ok
                      THEN new.age.Valid /\ IntOfInt32(new.age.Int32) = b.Age.v
                      ELSE new.age = old.age
                   /\ new.status = (IF b.Status.ok THEN b.Status.v ELSE old.status)
                   /\ users' = (users \ {old}) \cup {new}]_vars

\* C7: once a delete has reported success for an identifier, no record carries
\* it, and every get for it whose storage call is answered is answered 404.
C7_DeletedStaysGone ==
    /\ deleted \cap IdsOf(users) = {}
    /\ \A p \in Procs :
          (/\ Done(p) /\ req[p].op = "get" /\ ParseOK(req[p].id)
           /\ ParseUUID(req[p].id) \in deleted
           /\ Answered(p))
          => resp[p].status = 404

\* a get for a deleted identifier was answered 404 while another record is stored
C7_Witness ==
    \E p \in Procs :
        /\ Done(p) /\ req[p].op = "get" /\ ParseOK(req[p].id)
        /\ ParseUUID(req[p].id) \in deleted
        /\ resp[p].status = 404
        /\ users # {}

\* C8: with one request at a time, a list whose storage call is answered is
\* answered 200 with exactly the stored records, each once, and a count equal to
\* their number; while nothing has been deleted the count is the number of
\* creates that succeeded, and the empty table gives the empty list and count 0.
C8_ListReturnsStore ==
    \A p \in Procs :
        (Done(p) /\ req[p].op = "list" /\ Answered(p))
        => /\ resp[p].status = 200
           /\ {resp[p].users[i] : i \in 1..Len(resp[p].users)}
                 = {ConvertToUserResponse(r) : r \in users}
           /\ Len(resp[p].users) = Cardinality(users)
           /\ resp[p].total = Cardinality(users)
           /\ (deleted = {} => resp[p].total = Cardinality(handedOut))
           /\ (users = {} => resp[p].users = << >> /\ resp[p].total = 0)

\* a list has returned two records
C8_Witness ==
    \E p \in Procs :
        /\ Done(p) /\ req[p].op = "list" /\ resp[p].status = 200
        /\ resp[p].total = 2
        /\ deleted = {}

\* C9: a get for the identifier a create returned, answered by the storage while
\* the record has not been written since, is answered 200 with the id, firstName,
\* lastName, email, phone, age and status of the create response.
C9_CreateGetRoundTrip ==
    \A p \in Procs : \A c \in fresh :
        (/\ Done(p) /\ req[p].op = "get" /\ ParseOK(req[p].id)
         /\ ParseUUID(req[p].id) = c.UserID
         /\ Answered(p))
        => /\ resp[p].status = 200
           /\ Len(resp[p].users) = 1
           /\ LET g == resp[p].users[1]
              IN /\ g.UserID = c.UserID
                 /\ g.FirstName = c.FirstName
                 /\ g.LastName = c.LastName
                 /\ g.Email = c.Email
                 /\ g.Phone = c.Phone
                 /\ g.Age = c.Age
                 /\ g.Status = c.Status

\* a get has returned a created record that carries phone and age, next to
\* another stored record
C9_Witness ==
    \E p \in Procs : \E c \in fresh :
        /\ Done(p) /\ req[p].op = "get" /\ resp[p].status = 200
        /\ resp[p].users[1].UserID = c.UserID
        /\ c.Phone.ok /\ c.Age.ok
        /\ Cardinality(users) = 2

\* C10: a get, update or delete whose path identifier is not a UUID is answered
\* 400 and has issued no storage call.
C10_MalformedIdNoStorage ==
    \A p \in Procs :
        (Done(p) /\ req[p].op \in {"get", "update", "delete"} /\ ~ParseOK(req[p].id))
        => (resp[p].status = 400 /\ calls[p] = << >>)

\* an update with a body that decodes and validates was refused for its identifier
C10_Witness ==
    \E p \in Procs :
        /\ Done(p) /\ req[p].op = "update" /\ ~ParseOK(req[p].id)
        /\ req[p].decodes
        /\ ValidateStruct(UpdateTags(req[p].body)) = NoDetails
        /\ resp[p].status = 400
        /\ svcErr[p].Message = "Invalid user ID format"
        /\ users # {}

\* C11: a successful create stores and returns status Active when the request
\* carries no status (or the empty one), and the status of the request when that
\* is Active or Inactive.
C11_StatusDefault ==
    \A p \in Procs :
        (Done(p) /\ req[p].op = "create" /\ resp[p].status = 201)
        => LET want == IF req[p].body.Status = "" THEN UserStatusActive
                       ELSE req[p].body.Status
           IN /\ want \in UserStatuses
              /\ resp[p].users[1].Status = want
              /\ \E r \in users : r.user_id = resp[p].users[1].UserID /\ r.status = want

\* a create without status has stored and returned an Active record
C11_Witness ==
    \E p \in Procs :
        /\ Done(p) /\ req[p].op = "create" /\ resp[p].status = 201
        /\ req[p].body.Status = ""
        /\ resp[p].users[1].Status = UserStatusActive

\* C12: with one request at a time, a get, an update (with a body that decodes
\* and validates) or a delete for a well-formed identifier that no stored record
\* carries ends at once, leaves the table as it was and, its storage call being
\* answered, is answered 404.
C12_MissingIsNotFound ==
    [][\A p \in Procs :
          (/\ pc[p] = "idle"
           /\ req'[p].op \in {"get", "update", "delete"}
           /\ ParseOK(req'[p].id)
           /\ ParseUUID(req'[p].id) \notin IdsOf(users)
           /\ (req'[p].op = "update"
                 => req'[p].decodes /\ ValidateStruct(UpdateTags(req'[p].body)) = NoDetails))
          => (/\ pc'[p] = "done"
              /\ users' = users
              /\ (Answered(p)' => resp'[p].status = 404))]_vars

\* an update for an identifier that was deleted was answered 404 while another
\* record is stored
C12_Witness ==
    \E p \in Procs :
        /\ Done(p) /\ req[p].op = "update" /\ resp[p].status = 404
        /\ ParseUUID(req[p].id) \in deleted
        /\ users # {}

\* C13: with one request at a time, an update of a stored record that supplies an
\* email (its body valid, its storage calls answered) is answered 409 exactly
\* when another stored record holds that email; otherwise, the target's own
\* email included, it is answered 200 and the target carries the email.
C13_EmailConflictIff ==
    \A p \in Procs :
        (/\ Done(p) /\ req[p].op = "update" /\ req[p].decodes
         /\ ValidateStruct(UpdateTags(req[p].body)) = NoDetails
         /\ ParseOK(req[p].id)
         /\ ParseUUID(req[p].id) \in IdsOf(users)
         /\ req[p].body.Email.ok
         /\ Answered(p))
        => LET id == ParseUUID(req[p].id)
               email == req[p].body.Email.v
               held == \E r \in users : r.user_id # id /\ r.email = email
           IN /\ resp[p].status = 409 <=> held
              /\ ~held => /\ resp[p].status = 200
                          /\ \E r \in users : r.user_id = id /\ r.email = email

\* an update that supplied the email its target already held has succeeded next
\* to another record
C13_Witness ==
    \E p \in Procs :
        /\ Done(p) /\ req[p].op = "update" /\ resp[p].status = 200
        /\ req[p].body.Email.ok
        /\ emailExists[p]
        /\ Cardinality(users) = 2

\* C14: every successful update, the one with an empty body included, leaves
\* the record's updated_at strictly greater than it was before.
C14_UpdatedAtIncreases ==
    [][\A p \in Procs :
          (pc[p] = "u_write" /\ pc'[p] = "done" /\ resp'[p].status = 200)
          => \E old \in users, new \in users' :
                /\ old.user_id = ParseUUID(req[p].id)
                /\ new.user_id = old.user_id
                /\ new.updated_at > old.updated_at]_vars

\* C15: no step of an update request, whatever its body and however it ends,
\* changes which identifiers are stored or touches a record other than its
\* target; the target keeps its identifier (and creation time), and a successful
\* update answers with the identifier of the request.
C15_IdentifierImmutable ==
    [][\A p \in Procs :
          (pc'[p] # pc[p] /\ req'[p].op = "update")
          => /\ IdsOf(users') = IdsOf(users)
             /\ Cardinality(users') = Cardinality(users)
             /\ \A r \in users :
                   \E n \in users' :
                      /\ n.user_id = r.user_id
                      /\ n.created_at = r.created_at
                      /\ (~ParseOK(req'[p].id) \/ r.user_id # ParseUUID(req'[p].id)) => n = r
             /\ (pc'[p] = "done" /\ resp'[p].status = 200)
                   => /\ Len(resp'[p].users) = 1
                      /\ resp'[p].users[1].UserID = ParseUUID(req'[p].id)
                      /\ UUIDText(resp'[p].users[1].UserID) = req'[p].id]_vars

\* an update has written the first name of one of two stored records
C15_Witness ==
    \E p \in Procs :
        /\ Done(p) /\ req[p].op = "update" /\ resp[p].status = 200
        /\ req[p].body.FirstName.ok
        /\ \E r \in users : r.user_id = ParseUUID(req[p].id)
                              /\ r.first_name = req[p].body.FirstName.v
        /\ Cardinality(users) = 2

\* C16: in every reachable state every stored record has status Active or
\* Inactive and an age that is absent or greater than 0.
C16_FieldConstraints ==
    \A r \in users :
        /\ r.status \in {"Active", "Inactive"}
        /\ r.age.Valid => r.age.Int32 > 0

\* an update whose age passed validation was rejected by the table's check, and
\* the stored record carries an age
C16_Witness ==
    /\ \E p \in Procs : Done(p) /\ req[p].op = "update" /\ svcErr[p].Err = ErrCheck
    /\ \E r \in users : r.age.Valid /\ r.status = UserStatusInactive

\* C17: every request that succeeds (is answered with its result, not with an
\* error body) is answered 201 for create and 200 for get, list, update and
\* delete, the delete answer carrying "User deleted successfully"; no error body
\* is sent with 200 or 201.
C17_SuccessStatus ==
    \A p \in Procs :
        Done(p) =>
            IF resp[p].shape = "error"
            THEN resp[p].status \notin {200, 201}
            ELSE CASE req[p].op = "create" ->
                        resp[p].status = 201 /\ resp[p].shape = "user"
                   [] req[p].op \in {"get", "update"} ->
                        resp[p].status = 200 /\ resp[p].shape = "user"
                   [] req[p].op = "list" ->
                        resp[p].status = 200 /\ resp[p].shape = "list"
                   [] req[p].op = "delete" ->
                        /\ resp[p].status = 200 /\ resp[p].shape = "message"
                        /\ resp[p].message = "User deleted successfully"
                   [] OTHER -> FALSE

\* a delete has removed a record and was answered 200 with its message
C17_Witness ==
    \E p \in Procs :
        /\ Done(p) /\ req[p].op = "delete"
        /\ resp[p].status = 200
        /\ resp[p].message = "User deleted successfully"
        /\ ParseUUID(req[p].id) \in deleted

\* The field rules as the specification words them: per field, the message of
\* the first rule it breaks in the order required, format, bounds, enum, or ""
NameRule(field, present, required, s) ==
    IF ~present THEN (IF required THEN field \o " is required" ELSE "")
    ELSE IF Len(s) < 2 THEN field \o " must be at least 2 characters"
    ELSE IF Len(s) > 50 THEN field \o " must not exceed 50 characters"
    ELSE ""

EmailRule(present, required, s) ==
    IF ~present THEN (IF required THEN "email is required" ELSE "")
    ELSE IF ~IsEmail(s) THEN "email must be a valid email address"
    ELSE ""

PhoneRule(ph) ==
    IF ph.ok /\ ~IsE164(ph.v) THEN "phone must be a valid phone number in E.164 format" ELSE ""

AgeRule(a) ==
    IF a.ok /\ ~(a.v.hi > 0 \/ (a.v.hi = 0 /\ a.v.lo > 0))
    THEN "age must be greater than 0" ELSE ""

StatusRule(present, s) ==
    IF present /\ s \notin {"Active", "Inactive"}
    THEN "status must be one of: Active Inactive" ELSE ""

\* in a create request a required string is absent when it is empty
CreateRules(b) ==
    [firstName |-> NameRule("firstName", b.FirstName # "", TRUE, b.FirstName),
     lastName |-> NameRule("lastName", b.LastName # "", TRUE, b.LastName),
     email |-> EmailRule(b.Email # "", TRUE, b.Email),
     phone |-> PhoneRule(b.Phone),
     age |-> AgeRule(b.Age),
     status |-> StatusRule(b.Status # "", b.Status)]

UpdateRules(b) ==
    [firstName |-> NameRule("firstName", b.FirstName.ok, FALSE, b.FirstName.v),
     lastName |-> NameRule("lastName", b.LastName.ok, FALSE, b.LastName.v),
     email |-> EmailRule(b.Email.ok, FALSE, b.Email.v),
     phone |-> PhoneRule(b.Phone),
     age |-> AgeRule(b.Age),
     status |-> StatusRule(b.Status.ok, b.Status.v)]

RulesOf(r) == IF r.op = "create" THEN CreateRules(r.body) ELSE UpdateRules(r.body)

\* the fields of a request that break a rule, and the map the rules call for
InvalidFields(r) == {f \in DOMAIN RulesOf(r) : RulesOf(r)[f] # ""}
ExpectedErrors(r) == [f \in InvalidFields(r) |-> RulesOf(r)[f]]

\* C18: a create or update whose body decodes but breaks a field rule is
\* answered 400 with error "Validation Failed" and details that have an entry
\* for every field that breaks a rule.
C18_ValidationResponse ==
    \A p \in Procs :
        (/\ Done(p) /\ req[p].op \in {"create", "update"} /\ req[p].decodes
         /\ InvalidFields(req[p]) # {})
        => /\ resp[p].status = 400
           /\ resp[p].error = "Validation Failed"
           /\ InvalidFields(req[p]) \subseteq DOMAIN resp[p].details

\* a create with email "not-an-email" was answered with details.email
C18_Witness ==
    \E p \in Procs :
        /\ Done(p) /\ req[p].op = "create" /\ req[p].body.Email = "not-an-email"
        /\ resp[p].status = 400
        /\ "email" \in DOMAIN resp[p].details

\* C19: validation lets a create or update body through exactly when no field
\* breaks its rule; otherwise the map it returns (the details of the answer) has
\* exactly one entry per field that breaks a rule, keyed by the camelCase name,
\* with the message of the first rule the field breaks.
C19_ValidateStructExact ==
    \A p \in Procs :
        (pc[p] # "idle" /\ req[p].op \in {"create", "update"} /\ req[p].decodes)
        => IF InvalidFields(req[p]) = {}
           THEN resp[p].error # "Validation Failed" /\ resp[p].details = NoDetails
           ELSE /\ Done(p)
                /\ resp[p].error = "Validation Failed"
                /\ resp[p].details = ExpectedErrors(req[p])

\* a create that breaks the rules of three fields got exactly their three messages
C19_Witness ==
    \E p \in Procs :
        /\ Done(p) /\ req[p].op = "create"
        /\ DOMAIN resp[p].details = {"firstName", "email", "age"}
        /\ resp[p].details["firstName"] = "firstName must be at least 2 characters"
        /\ resp[p].details["age"] = "age must be greater than 0"

\* the message of a 500 answer, by operation and failing storage call
InternalMessage(op, call) ==
    CASE op = "create" /\ call = "EmailExists" -> "Failed to check email existence"
      [] op = "create" /\ call = "CreateUser" -> "Failed to create user"
      [] op = "get" /\ call = "GetUserByID" -> "Failed to get user"
      [] op = "list" /\ call = "ListUsers" -> "Failed to list users"
      [] op = "update" /\ call = "UserExists" -> "Failed to check user"
      [] op = "update" /\ call = "EmailExists" -> "Failed to check email"
      [] op = "update" /\ call = "GetUserByID" -> "Failed to get user"
      [] op = "update" /\ call = "UpdateUser" -> "Failed to update user"
      [] op = "delete" /\ call = "UserExists" -> "Failed to check user"
      [] op = "delete" /\ call = "DeleteUser" -> "Failed to delete user"
      [] OTHER -> "?"

\* C20: the body of a 500 answer is determined by the operation and the storage
\* call that failed, and by nothing else: whatever the cause (kept in the
\* AppError), status, error text and message are the same.
C20_InternalErrorBodyFixed ==
    \A p \in Procs :
        (Done(p) /\ (svcErr[p].StatusCode = 500 \/ resp[p].status = 500))
        => /\ calls[p] # << >>
           /\ svcErr[p].Err # ""
           /\ resp[p] = [status |-> 500,
                         error |-> "Internal Server Error",
                         message |-> InternalMessage(req[p].op, calls[p][Len(calls[p])]),
                         details |-> NoDetails,
                         users |-> << >>, total |-> 0, shape |-> "error"]

\* an update write has failed on the unique constraint, a cause other than the
\* failures of the connection, and was answered 500
C20_Witness ==
    \E p \in Procs :
        /\ Done(p) /\ req[p].op = "update" /\ resp[p].status = 500
        /\ svcErr[p].Err = ErrUnique
        /\ resp[p].message = "Failed to update user"

IsPrefix(s, t) == Len(s) <= Len(t) /\ \A i \in 1..Len(s) : s[i] = t[i]

\* the storage calls of a create and of an update, in the order of the pipeline:
\* the checks, then the write
CreateCalls == << "EmailExists", "CreateUser" >>
UpdateCalls(body) ==
    IF body.Email.ok THEN << "UserExists", "EmailExists", "GetUserByID", "UpdateUser" >>
    ELSE << "UserExists", "UpdateUser" >>

\* C21: a create or update whose body does not decode or does not validate is
\* answered 400 without any storage call; the storage calls of the others are
\* issued in the order checks, then write, so that the write is the last call
\* and comes only after every check of the request was issued and passed.
C21_PipelineOrder ==
    \A p \in Procs :
        req[p].op \in {"create", "update"} =>
            LET tags == IF req[p].op = "create" THEN CreateTags(req[p].body)
                        ELSE UpdateTags(req[p].body)
                order == IF req[p].op = "create" THEN CreateCalls
                         ELSE UpdateCalls(req[p].body)
            IN IF ~req[p].decodes \/ ValidateStruct(tags) # NoDetails
               THEN Done(p) /\ calls[p] = << >> /\ resp[p].status = 400
               ELSE /\ IsPrefix(calls[p], order)
                    /\ pc[p] \in {"c_insert", "u_write"} => Len(calls[p]) = Len(order) - 1
                    /\ (Done(p) /\ resp[p].status \in {200, 201}) => calls[p] = order

\* an update that supplied an email has written after its three checks
C21_Witness ==
    \E p \in Procs :
        /\ Done(p) /\ req[p].op = "update" /\ resp[p].status = 200
        /\ calls[p] = << "UserExists", "EmailExists", "GetUserByID", "UpdateUser" >>

\* C22: a storage call that finds no row for the requested identifier is never
\* answered 500; an update whose record was deleted after its existence check
\* is answered 404.
C22_NoRowsIsNotFound ==
    \A p \in Procs :
        (Done(p) /\ svcErr[p].Err = ErrNoRows) => resp[p].status = 404

\* C23: an update with a malformed identifier is answered 400 "Invalid user ID
\* format" whatever its body is, also when the body does not decode or does not
\* validate.
C23_UpdateParsesIdFirst ==
    \A p \in Procs :
        (Done(p) /\ req[p].op = "update" /\ ~ParseOK(req[p].id)) =>
            /\ resp[p].status = 400
            /\ resp[p].message = "Invalid user ID format"
            /\ calls[p] = << >>

\* C24: an update is answered Conflict exactly on the strength of two separate
\* reads, the answer of EmailExists and the email of the record fetched
\* afterwards, which differs from the requested one; whether a record other
\* than the target holds the email when the answer is given plays no part, so
\* that an update can be rejected although no other record ever held the email.
C24_ConflictFromTwoReads ==
    \A p \in Procs :
        (Done(p) /\ req[p].op = "update" /\ resp[p].status = 409) =>
            /\ req[p].body.Email.ok
            /\ emailExists[p]
            /\ calls[p] = << "UserExists", "EmailExists", "GetUserByID" >>
            /\ \E r \in users : /\ r.user_id = ParseUUID(req[p].id)
                                /\ r.email # req[p].body.Email.v

\* a wrong rejection: the update is answered Conflict although its target is
\* the only record that was ever stored, and nothing holds the requested email
C24_Witness ==
    \E p \in Procs :
        /\ Done(p) /\ req[p].op = "update" /\ resp[p].status = 409
        /\ handedOut = {ParseUUID(req[p].id)}
        /\ \A r \in users : r.email # req[p].body.Email.v

\* the error kinds, by the messages the service and the handlers give them
KindStatus(message) ==
    CASE message \in {"Invalid request body", "Invalid user ID format"} -> 400
      [] message = "User not found" -> 404
      [] message \in {"Email Already Exists", "Email already exists"} -> 409
      [] OTHER -> 500

KindText(code) ==
    CASE code = 400 -> "Bad Request"
      [] code = 404 -> "Not Found"
      [] code = 409 -> "Conflict"
      [] OTHER -> "Internal Server Error"

\* C25: every error response made from an error value (every one but the
\* validation response, which has its own body) carries the status of its error
\* kind, the status text of that code as its error field and the error's
\* message; an error that is not an AppError is answered 500 "An unexpected
\* error occurred".
C25_ErrorResponseBody ==
    /\ \A p \in Procs :
         (Done(p) /\ resp[p].shape = "error" /\ resp[p].error # "Validation Failed") =>
             /\ resp[p].status \in {400, 404, 409, 500}
             /\ resp[p].status = KindStatus(resp[p].message)
             /\ resp[p].error = KindText(resp[p].status)
             /\ resp[p].details = NoDetails
             /\ svcErr[p] # NoError =>
                    /\ resp[p].status = svcErr[p].StatusCode
                    /\ resp[p].message = svcErr[p].Message
    /\ \A text \in Faults \cup {ErrNoRows, ErrUnique} :
         LET r == handleServiceError(OtherError(text))
         IN /\ r.status = 500
            /\ r.error = "Internal Server Error"
            /\ r.message = "An unexpected error occurred"

\* the service's Conflict error of an update has been answered
C25_Witness ==
    \E p \in Procs :
        /\ Done(p) /\ req[p].op = "update"
        /\ svcErr[p] = NewConflictError("Email already exists")
        /\ resp[p].status = 409 /\ resp[p].error = "Conflict"
        /\ resp[p].message = "Email already exists"

\* strings and integers of the 32-bit range the conversions are tried on:
\* 0, 5, -1, 2^16, 2^31 - 1 and -2^31
StringSamples == {"", "x", "+14155551234"}
Int32Samples ==
    {GoInt(0, 0), GoInt(0, 5), GoInt(-1, Limb - 1), GoInt(1, 0),
     GoInt((Limb \div 2) - 1, Limb - 1), GoInt(-(Limb \div 2), 0)}
InInt32Range(i) == i.hi >= -(Limb \div 2) /\ i.hi < Limb \div 2

\* C26: the optional-field conversions undo each other: an absent value comes
\* back absent, a string comes back as the same string and an integer of the
\* 32-bit range as the same integer; absent maps to the "no value" marker and
\* "no value" maps to absent; a created record returns the phone and the
\* (32-bit) age of its request through both conversions.
C26_ConvertersInverse ==
    /\ ConvertStringPtrToText(NilStr) = [String |-> "", Valid |-> FALSE]
    /\ ConvertIntPtrToInt4(NilInt) = [Int32 |-> 0, Valid |-> FALSE]
    /\ ConvertTextToStringPtr(ConvertStringPtrToText(NilStr)) = NilStr
    /\ ConvertInt4ToIntPtr(ConvertIntPtrToInt4(NilInt)) = NilInt
    /\ \A s \in StringSamples :
         /\ ConvertStringPtrToText(PtrStr(s)).Valid
         /\ ConvertTextToStringPtr(ConvertStringPtrToText(PtrStr(s))) = PtrStr(s)
         /\ ConvertStringPtrToText(ConvertTextToStringPtr([String |-> s, Valid |-> TRUE]))
              = [String |-> s, Valid |-> TRUE]
         /\ ConvertTextToStringPtr([String |-> s, Valid |-> FALSE]) = NilStr
    /\ \A i \in Int32Samples :
         /\ InInt32Range(i)
         /\ ConvertIntPtrToInt4(PtrInt(i)).Valid
         /\ ConvertInt4ToIntPtr(ConvertIntPtrToInt4(PtrInt(i))) = PtrInt(i)
         /\ ConvertIntPtrToInt4(ConvertInt4ToIntPtr([Int32 |-> Int32Of(i), Valid |-> TRUE]))
              = [Int32 |-> Int32Of(i), Valid |-> TRUE]
         /\ ConvertInt4ToIntPtr([Int32 |-> Int32Of(i), Valid |-> FALSE]) = NilInt
    /\ \A p \in Procs :
         (Done(p) /\ req[p].op = "create" /\ resp[p].status = 201) =>
             /\ resp[p].users[1].Phone = req[p].body.Phone
             /\ InInt32Range(req[p].body.Age.v) => resp[p].users[1].Age = req[p].body.Age
             /\ \E r \in users :
                  /\ r.user_id = resp[p].users[1].UserID
                  /\ r.phone.Valid = req[p].body.Phone.ok
                  /\ r.age.Valid = req[p].body.Age.ok

\* a create with a phone and an age has returned both, and one without them
\* returns neither
C26_Witness ==
    \E p \in Procs :
        /\ Done(p) /\ req[p].op = "create" /\ resp[p].status = 201
        /\ req[p].body.Phone = PtrStr("+14155551234") /\ req[p].body.Age = Age5
        /\ resp[p].users[1].Phone = PtrStr("+14155551234")
        /\ resp[p].users[1].Age = Age5

\* C27: for each stored record at most one delete reports success: a delete is
\* never answered with success for an identifier for which a delete has
\* already reported success.
C27_OneDeleteSucceeds ==
    [][\A p \in Procs :
          (pc[p] = "d_delete" /\ pc'[p] = "done" /\ resp'[p].status = 200)
          => ParseUUID(req[p].id) \notin deleted]_vars

\* the fields of row that body supplies hold the values of body
Supplied(body, row) ==
    /\ body.FirstName.ok => row.first_name = body.FirstName.v
    /\ body.LastName.ok => row.last_name = body.LastName.v
    /\ body.Email.ok => row.email = body.Email.v
    /\ body.Phone.ok => row.phone = ConvertStringPtrToText(body.Phone)
    /\ body.Age.ok => row.age = [Int32 |-> 5, Valid |-> TRUE]
    /\ body.Status.ok => row.status = body.Status.v

\* the fields of old that hold the value some body of PatchBodies supplies
\* hold it in new as well
Kept(old, new) ==
    \A b \in PatchBodies :
        /\ (b.FirstName.ok /\ Supplied([ZeroUpdate EXCEPT !.FirstName = b.FirstName], old))
              => new.first_name = old.first_name
        /\ (b.LastName.ok /\ Supplied([ZeroUpdate EXCEPT !.LastName = b.LastName], old))
              => new.last_name = old.last_name
        /\ (b.Email.ok /\ Supplied([ZeroUpdate EXCEPT !.Email = b.Email], old))
              => new.email = old.email
        /\ (b.Phone.ok /\ Supplied([ZeroUpdate EXCEPT !.Phone = b.Phone], old))
              => new.phone = old.phone
        /\ (b.Age.ok /\ Supplied([ZeroUpdate EXCEPT !.Age = b.Age], old))
              => new.age = old.age
        /\ (b.Status.ok /\ Supplied([ZeroUpdate EXCEPT !.Status = b.Status], old))
              => new.status = old.status

\* C28: concurrent successful updates of one record that supply different
\* fields all take effect. Every field has one value that updates supply, other
\* than the value the record was created with; an update that succeeds leaves
\* the record with the values it supplied, and a field that holds the value an
\* update supplied keeps it through every later step, whichever request takes
\* it and however the storage calls interleave: once both updates have
\* completed, the fields of both hold the supplied values.
C28_NoLostUpdate ==
    [][/\ \A p \in Procs :
            (pc[p] = "u_write" /\ pc'[p] = "done" /\ resp'[p].status = 200)
            => \E new \in users' : /\ new.user_id = ParseUUID(req[p].id)
                                   /\ Supplied(req[p].body, new)
       /\ \A old \in users : \E new \in users' : /\ new.user_id = old.user_id
                                                 /\ Kept(old, new)]_vars

\* an update of the email completes on a record that updates of the first name,
\* the age and the status have written, while an update of the last name that
\* has passed its existence check waits to write: every supplied value is stored
C28_Witness ==
    \E p \in Procs :
        /\ Done(p) /\ resp[p].status = 200
        /\ req[p].body = [ZeroUpdate EXCEPT !.Email = PtrStr("b@x.io")]
        /\ \E r \in users : /\ r.first_name = "Al" /\ r.email = "b@x.io"
                            /\ r.status = UserStatusInactive
                            /\ r.age = [Int32 |-> 5, Valid |-> TRUE]
        /\ \E q \in Procs \ {p} :
              /\ pc[q] = "u_write"
              /\ req[q].body = [ZeroUpdate EXCEPT !.LastName = PtrStr("Roe")]

\* C29: a create or an update that passes validation with an age present and
\* succeeds stores and returns the age of the request, also when the age is
\* above 2^31 - 1.
C29_AgeKept ==
    \A p \in Procs :
        (/\ Done(p) /\ req[p].op \in {"create", "update"}
         /\ resp[p].status \in {200, 201}
         /\ req[p].body.Age.ok)
        => /\ resp[p].users[1].Age = req[p].body.Age
           /\ \E r \in users : /\ r.user_id = resp[p].users[1].UserID
                               /\ ConvertInt4ToIntPtr(r.age) = req[p].body.Age

====
